---------------------------- MODULE Spec2Model ----------------------------
(***************************************************************************)
(* Model of the scene normalisation and rendering pipeline of              *)
(* scene_card.py and of the template prompt of generate_prompt.py.         *)
(*                                                                         *)
(* Units: angles, latitudes and weather numbers are integers in tenths of  *)
(* their unit (elevation 100 = 10.0 degrees, temperature 74 = 7.4 C).      *)
(* Python values: None is the Python None / pandas NaN, Val(v) a present   *)
(* value, Missing a key that the dict does not have.                       *)
(* Text: a rendered text is a sequence of fragments, a fragment is a       *)
(* sequence of string tokens (the pieces an f-string concatenates).        *)
(***************************************************************************)
EXTENDS Integers, Sequences, FiniteSets, TLC

VARIABLES
    pc,      \* position of the caller: start, normalized, raised, rendered, ...
    entry,   \* "script": run as __main__ ; "import": used as a library
    args,    \* arguments of scene_card / derive_place_type
    env,     \* responses of the external collaborators
    ret,     \* what the last call returned or raised
    norm,    \* the module global `norm` of scene_card.py
    call,    \* the keyword / extra arguments of the last renderer call
    out      \* what the renderer returned or raised

vars == <<pc, entry, args, env, ret, norm, call, out>>

-----------------------------------------------------------------------------
(* Python values *)

None    == [t |-> "None"]
Missing == [t |-> "missing"]
Val(v)  == [t |-> "val", v |-> v]

\* dict.get(key): a missing key reads as None
Get(x) == IF x = Missing THEN None ELSE x

\* dict.get(key, default)
GetDefault(x, d) == IF x = Missing THEN d ELSE x

\* truth value of an optional string
Truthy(x) == /\ x # None
             /\ x # Missing
             /\ x # Val("")

\* truth value of an optional boolean
TruthyFlag(x) == x = Val(TRUE)

\* x or y
Or(x, y) == IF Truthy(x) THEN x ELSE y

Unbound == [t |-> "unbound"]
Raise(e) == [t |-> "raise", exc |-> e]
IsRaise(r) == r.t = "raise"

-----------------------------------------------------------------------------
(* Bounds of the model *)

MaxFeatures == 2
MaxPois == 2
MaxTags == 4

RECURSIVE SeqsUpTo(_, _)
SeqsUpTo(S, n) ==
    IF n = 0 THEN {<<>>}
    ELSE LET shorter == SeqsUpTo(S, n - 1)
         IN shorter \cup {Append(s, x) : s \in {q \in shorter : Len(q) = n - 1}, x \in S}

-----------------------------------------------------------------------------
(* sun_position_flags: the flags of an elevation (tenths of a degree) *)

sun_position_flags(az, el) ==
    [azimuth_deg    |-> Val(az),
     elevation_deg  |-> Val(el),
     is_day         |-> Val(el > 0),
     is_blue_hour   |-> Val(-60 <= el /\ el <= 0),
     is_golden_hour |-> Val(0 < el /\ el <= 100),
     is_night       |-> Val(el < -60)]

Dirs == <<"N", "NE", "E", "SE", "S", "SW", "W", "NW">>

\* a bucket that starts at the compass point instead of being centred on it
dir_bucket_uncentred(a) ==
    IF a = None THEN "unknown"
    ELSE Dirs[(((a.v % 3600) % 3600) \div 450) + 1]

\* _sun_buckets.dir_bucket
dir_bucket(a) ==
    IF a = None THEN "unknown"
    ELSE Dirs[((((a.v % 3600) + 225) % 3600) \div 450) + 1]

\* _sun_buckets.elev_bucket
elev_bucket(e) ==
    IF e = None THEN "unknown"
    ELSE IF e.v >= 350 THEN "high"
    ELSE IF e.v >= 120 THEN "medium"
    ELSE IF e.v >= 0 THEN "low"
    ELSE "below horizon"

sun_buckets(azimuth_deg, elevation_deg) ==
    <<dir_bucket(azimuth_deg), elev_bucket(elevation_deg)>>

-----------------------------------------------------------------------------
(* lookup_koppen_leafstate: lat in tenths of a degree *)

Abs(x) == IF x < 0 THEN -x ELSE x

koppen_of(lat) ==
    IF Abs(lat) < 100 THEN "Af"
    ELSE IF Abs(lat) < 230 THEN "Aw"
    ELSE IF Abs(lat) < 350 THEN "BSh"
    ELSE IF Abs(lat) < 550 THEN "Cfb"
    ELSE "Dfb"

\* the temperate season with its last day left out
leaf_on_of_strict(koppen, doy) ==
    IF koppen \in {"Cfb", "Dfb"} THEN 120 <= doy /\ doy < 300
    ELSE IF koppen \in {"Af", "Aw"} THEN TRUE
    ELSE 150 <= doy /\ doy <= 280

leaf_on_of(koppen, doy) ==
    IF koppen \in {"Cfb", "Dfb"} THEN 120 <= doy /\ doy <= 300
    ELSE IF koppen \in {"Af", "Aw"} THEN TRUE
    ELSE 150 <= doy /\ doy <= 280

lookup_koppen_leafstate(lat, doy) ==
    <<koppen_of(lat), leaf_on_of(koppen_of(lat), doy)>>

-----------------------------------------------------------------------------
(* osm_features: the category tally, the place type and the nearest POI *)

CatNames == <<"residential", "retail", "industrial", "commercial",
              "park", "forest", "water", "farmland",
              "road_major", "road_minor", "building">>

Cats == {CatNames[i] : i \in 1..Len(CatNames)}

\* the chain with the residential rule tried before the commercial one
derive_place_type_swapped(c) ==
    IF c["residential"] + c["building"] > 20 /\ c["road_minor"] > 3
        THEN "urban_residential"
    ELSE IF c["retail"] + c["commercial"] > 5 /\ c["road_major"] >= 1
        THEN "urban_commercial"
    ELSE IF c["park"] + c["forest"] > 5 /\ c["building"] < 10
        THEN "parkland"
    ELSE IF c["farmland"] > 3 /\ c["building"] < 5
        THEN "rural_farmland"
    ELSE IF c["industrial"] > 2
        THEN "industrial"
    ELSE "mixed_urban"

derive_place_type(c) ==
    IF c["retail"] + c["commercial"] > 5 /\ c["road_major"] >= 1
        THEN "urban_commercial"
    ELSE IF c["residential"] + c["building"] > 20 /\ c["road_minor"] > 3
        THEN "urban_residential"
    ELSE IF c["park"] + c["forest"] > 5 /\ c["building"] < 10
        THEN "parkland"
    ELSE IF c["farmland"] > 3 /\ c["building"] < 5
        THEN "rural_farmland"
    ELSE IF c["industrial"] > 2
        THEN "industrial"
    ELSE "mixed_urban"

\* `col in gdf.columns`: the table has a column for every tag some row carries
HasColumn(gdf, col) == \E i \in 1..Len(gdf) : gdf[i][col] # None

\* series.fillna("").value_counts(): distinct value -> number of rows
value_counts(gdf, col) ==
    LET filled == [i \in 1..Len(gdf) |->
                      IF gdf[i][col] = None THEN "" ELSE gdf[i][col].v]
        keys == {filled[i] : i \in 1..Len(gdf)}
    IN [k \in keys |-> Cardinality({i \in 1..Len(gdf) : filled[i] = k})]

RECURSIVE SumOver(_, _)
SumOver(f, S) ==
    IF S = {} THEN 0
    ELSE LET k == CHOOSE x \in S : TRUE
         IN f[k] + SumOver(f, S \ {k})

\* the alias table with wood filed under park
landuse_cat_wood_as_park(k) ==
    IF k \in Cats THEN k
    ELSE IF k \in {"grass", "meadow", "recreation_ground", "wood"} THEN "park"
    ELSE IF k \in {"forest"} THEN "forest"
    ELSE IF k \in {"farmland", "farm", "orchard", "vineyard"} THEN "farmland"
    ELSE ""

\* the category a landuse value is added to ("" = none)
landuse_cat(k) ==
    IF k \in Cats THEN k
    ELSE IF k \in {"grass", "meadow", "recreation_ground"} THEN "park"
    ELSE IF k \in {"forest", "wood"} THEN "forest"
    ELSE IF k \in {"farmland", "farm", "orchard", "vineyard"} THEN "farmland"
    ELSE ""

\* the categories a natural value is added to (two independent ifs)
natural_cats(k) ==
    (IF k \in {"water", "wetland"} THEN {"water"} ELSE {})
    \cup (IF k \in {"wood", "forest"} THEN {"forest"} ELSE {})

highway_cat(k) ==
    IF k \in {"motorway", "trunk", "primary"} THEN "road_major"
    ELSE IF k \in {"secondary", "tertiary", "residential", "service", "unclassified"}
        THEN "road_minor"
    ELSE ""

count_categories(gdf_land) ==
    LET lu == value_counts(gdf_land, "landuse")
        na == value_counts(gdf_land, "natural")
        hw == value_counts(gdf_land, "highway")
    IN [c \in Cats |->
          (IF HasColumn(gdf_land, "landuse")
              THEN SumOver(lu, {k \in DOMAIN lu : landuse_cat(k) = c}) ELSE 0)
        + (IF HasColumn(gdf_land, "natural")
              THEN SumOver(na, {k \in DOMAIN na : c \in natural_cats(k)}) ELSE 0)
        + (IF HasColumn(gdf_land, "highway")
              THEN SumOver(hw, {k \in DOMAIN hw : highway_cat(k) = c}) ELSE 0)
        + (IF c = "building" /\ HasColumn(gdf_land, "building")
              THEN Cardinality({i \in 1..Len(gdf_land) : gdf_land[i]["building"] # None})
              ELSE 0)]

\* gdf[col].dropna().iloc[0]
FirstNotNa(gdf, col) ==
    gdf[CHOOSE i \in 1..Len(gdf) :
            /\ gdf[i][col] # None
            /\ \A j \in 1..(i - 1) : gdf[j][col] = None][col]

PoiCols == <<"name", "brand", "operator">>

select_nearest_poi(gdf_poi) ==
    LET usable == {n \in 1..Len(PoiCols) : HasColumn(gdf_poi, PoiCols[n])}
    IN IF gdf_poi = <<>> \/ usable = {} THEN None
       ELSE FirstNotNa(gdf_poi, PoiCols[CHOOSE n \in usable : \A m \in usable : n <= m])

\* osm_features: the feature query raises when the service cannot be reached
osm_features(osm) ==
    IF ~osm.ok THEN Raise("ConnectionError")
    ELSE LET cats == count_categories(osm.gdf_land)
         IN [t |-> "ok",
             place_type |-> derive_place_type(cats),
             nearest_poi |-> select_nearest_poi(osm.gdf_poi),
             cats |-> cats]

-----------------------------------------------------------------------------
(* tz_for_point, to_local, derive_calendar, reverse_geocode *)

\* tz_for_point: no match reads as "UTC"; a failing finder raises
tz_for_point(tz) ==
    IF ~tz.ok THEN Raise("TimezoneError")
    ELSE IF tz.tzname = None THEN Val("UTC")
    ELSE tz.tzname

\* the UTC offset (hours) of the zones the model knows
UtcOffset(tzname) ==
    CASE tzname = "Europe/Paris" -> 1
      [] tzname = "America/New_York" -> -5
      [] OTHER -> 0

\* to_local: dt_utc = [doy, hour]; the instants drawn keep the local date
\* equal to the UTC date, so only the hour and the offset change
to_local(dt_utc, tzname) ==
    [doy |-> dt_utc.doy, hour |-> dt_utc.hour + UtcOffset(tzname),
     off |-> UtcOffset(tzname)]

WeekDays == <<"Mon", "Tue", "Wed", "Thu", "Fri", "Sat", "Sun">>

\* strftime("%a") for a day of 2025 (1 January 2025 is a Wednesday)
strftime_a(dt) == WeekDays[((dt.doy + 1) % 7) + 1]

Two(n) == IF n < 10 THEN <<"0", ToString(n)>> ELSE <<ToString(n)>>

\* datetime.isoformat(): date, "T", time and the signed offset when aware
isoformat(dt, aware) ==
    [date |-> <<"2025-d", ToString(dt.doy)>>,
     time |-> Two(dt.hour) \o <<":00:00">>,
     sign |-> IF ~aware THEN "" ELSE IF dt.off < 0 THEN "-" ELSE "+",
     off  |-> IF ~aware THEN <<>> ELSE Two(Abs(dt.off)) \o <<":00">>]

country_of(lat, lon) ==
    IF -100 <= lon /\ lon <= 300 /\ 350 <= lat /\ lat <= 600 THEN "FR" ELSE "US"

\* derive_calendar: when the holiday lookup raises, the except clause sets
\* is_holiday only, and the return statement reads the unbound local `name`
derive_calendar(dt_local, lat, lon, holiday) ==
    IF ~holiday.ok THEN Raise("UnboundLocalError")
    ELSE LET name == holiday.name[country_of(lat, lon)]
         IN [t |-> "ok",
             weekday |-> strftime_a(dt_local),
             doy |-> dt_local.doy,
             is_holiday |-> Truthy(name),
             holiday_name |-> name]

Upper(s) ==
    CASE s = "fr" -> "FR"
      [] s = "us" -> "US"
      [] OTHER -> s

EmptyLocation ==
    [country_code |-> Val(""), region |-> Val(""), city |-> Val(""),
     neighborhood |-> Val(""), display_name |-> Val("")]

\* reverse_geocode: any exception becomes the empty labels
reverse_geocode(geocode) ==
    IF ~geocode.ok THEN EmptyLocation
    ELSE LET addr == geocode.address
         IN [country_code |-> Val(Upper(Or(Get(addr.country_code), Val("")).v)),
             region |-> Or(Get(addr.state), Val("")),
             city |-> Or(Or(Or(Or(Get(addr.city), Get(addr.town)),
                               Get(addr.village)), Get(addr.municipality)), Val("")),
             neighborhood |-> Or(Or(Or(Get(addr.neighbourhood), Get(addr.suburb)),
                                    Get(addr.quarter)), Val("")),
             display_name |-> geocode.display_name]

-----------------------------------------------------------------------------
(* scene_card: the normalizer *)

scene_card(a, e) ==
    LET osm == osm_features(e.osm)
        tzname == tz_for_point(e.tz)
        dt_local == to_local(a.dt_utc, tzname.v)
        cal == derive_calendar(dt_local, a.lat, a.lon, e.holiday)
        loc == reverse_geocode(e.geocode)
        sun == sun_position_flags(e.sun.az, e.sun.el)
        kl == lookup_koppen_leafstate(a.lat, cal.doy)
        koppen == IF a.climate = None THEN Val(kl[1])
                  ELSE GetDefault(a.climate.v.koppen, Val("Cfb"))
        leaf_on == IF a.climate = None THEN Val(kl[2])
                   ELSE Val(TruthyFlag(GetDefault(a.climate.v.leaf_on, Val(TRUE))))
    IN IF IsRaise(osm) THEN osm
       ELSE IF IsRaise(tzname) THEN tzname
       ELSE IF IsRaise(cal) THEN cal
       ELSE [t |-> "scene",
             geo |-> [lat |-> Val(a.lat), lon |-> Val(a.lon),
                      nearest_poi |-> osm.nearest_poi,
                      place_type |-> Val(osm.place_type),
                      landuse_counts |-> Val(osm.cats)],
             time |-> [dt_utc |-> Val(isoformat([doy |-> a.dt_utc.doy,
                                                   hour |-> a.dt_utc.hour,
                                                   off |-> 0], FALSE)),
                       dt_local |-> Val(isoformat(dt_local, TRUE)),
                       weekday |-> Val(cal.weekday),
                       doy |-> Val(cal.doy),
                       is_holiday |-> Val(cal.is_holiday),
                       holiday_name |-> cal.holiday_name],
             sun |-> sun,
             weather |-> a.weather,
             climate |-> [koppen |-> koppen, leaf_on |-> leaf_on],
             camera |-> [heading_deg |-> a.heading_deg, hfov_deg |-> Val(700)],
             location |-> loc]

-----------------------------------------------------------------------------
(* Number formatting *)

\* format(x, ".0f") of x tenths: round half to even; a negative value that
\* rounds to zero prints as "-0"
Fmt0(x) ==
    LET q == x \div 10
        r == x % 10
        n == IF r < 5 THEN q
             ELSE IF r > 5 THEN q + 1
             ELSE IF q % 2 = 0 THEN q ELSE q + 1
    IN IF n = 0 /\ x < 0 THEN "-0" ELSE ToString(n)

\* format(x, ".1f") of x tenths
Fmt1(x) ==
    (IF x < 0 THEN <<"-">> ELSE <<>>)
    \o <<ToString(Abs(x) \div 10), ".", ToString(Abs(x) % 10)>>

\* str(x) inside an f-string: None prints as "None"
Str(x) == IF x = None THEN "None" ELSE x.v

-----------------------------------------------------------------------------
(* scene_card_to_template_prompt of scene_card.py *)

place_map(pt) ==
    CASE pt = "urban_residential" -> "residential neighborhood"
      [] pt = "urban_commercial" -> "commercial district"
      [] pt = "parkland" -> "parkland area"
      [] pt = "rural_farmland" -> "farmland"
      [] pt = "industrial" -> "industrial area"
      [] pt = "mixed_urban" -> "mixed urban area"
      [] OTHER -> "streetscape"

\* str(poi).strip().lower() on the names of the model
StripLower(s) ==
    CASE s = "Cafe Rio" -> "cafe rio"
      [] s = "Parking P1" -> "parking p1"
      [] s = "Acme" -> "acme"
      [] s = "Metro" -> "metro"
      [] OTHER -> s

GenericWords == {"bus stop", "parking", "intersection", "roundabout", "residential area"}

\* b in low, on the names of the model
IsSubstring(b, low) == <<b, low>> \in {<<"parking", "parking p1">>}

poi_is_useful(poi) ==
    /\ Truthy(poi)
    /\ StripLower(poi.v) \notin {"no notable poi", "unknown", ""}
    /\ ~\E b \in GenericWords : IsSubstring(b, StripLower(poi.v))

lead_bits(geo, loc) ==
    LET pt == Or(Get(geo.place_type), Val("")).v
        city == Get(loc.city)
        cc == IF Truthy(Get(loc.country_code))
                 THEN Val(Upper(Get(loc.country_code).v)) ELSE None
    IN <<<<place_map(pt)>>>>
       \o (IF Truthy(city) /\ Truthy(cc) THEN <<<<"in ", city.v, ", ", cc.v>>>>
           ELSE IF Truthy(city) THEN <<<<"in ", city.v>>>>
           ELSE IF Truthy(cc) THEN <<<<"in ", cc.v>>>>
           ELSE <<>>)
       \o (IF poi_is_useful(Get(geo.nearest_poi))
              THEN <<<<"near ", Get(geo.nearest_poi).v>>>> ELSE <<>>)

\* "YYYY-MM-DD HH:MM:SS (UTC+01:00)" from the ISO text of the local instant
time_txt(dt_local) ==
    IF dt_local = None THEN None
    ELSE LET iso == dt_local.v
             date_time == iso.date \o <<" ">> \o iso.time
         IN IF iso.sign = "+" /\ iso.off # <<>>
               THEN Val(date_time \o <<" (UTC+">> \o iso.off \o <<")">>)
            ELSE IF iso.sign = "-"
               THEN Val(date_time \o <<" (UTC", "-">> \o iso.off \o <<")">>)
            ELSE Val(date_time)

\* the chain with the day flag tried first
phase_of_day_first(sun) ==
    IF TruthyFlag(Get(sun.is_day)) THEN "day"
    ELSE IF TruthyFlag(Get(sun.is_golden_hour)) THEN "golden"
    ELSE IF TruthyFlag(Get(sun.is_blue_hour)) THEN "blue"
    ELSE "night"

phase_of(sun) ==
    IF TruthyFlag(Get(sun.is_golden_hour)) THEN "golden"
    ELSE IF TruthyFlag(Get(sun.is_blue_hour)) THEN "blue"
    ELSE IF TruthyFlag(Get(sun.is_day)) THEN "day"
    ELSE "night"

\* the compass bucket computed inline by the renderer
inline_dir_bucket(az) == Dirs[(((az + 225) % 3600) \div 450) + 1]

inline_elev_bucket(el) ==
    IF el >= 350 THEN "high"
    ELSE IF el >= 120 THEN "medium"
    ELSE IF el >= 0 THEN "low"
    ELSE "below horizon"

sun_txt(sun) ==
    LET az == Get(sun.azimuth_deg)
        el == Get(sun.elevation_deg)
    IN IF az # None /\ el # None
          THEN <<phase_of(sun), " (sun ", inline_dir_bucket(az.v), ", ",
                 inline_elev_bucket(el.v), "; ", Fmt0(az.v), "deg/", Fmt0(el.v), "deg)">>
          ELSE <<phase_of(sun)>>

time_line_bits(t, sun) ==
    LET holiday == Or(Get(t.holiday_name),
                      IF TruthyFlag(Get(t.is_holiday)) THEN Val("public holiday") ELSE None)
        weekday == Get(t.weekday)
        cal_bits == (IF Truthy(holiday) THEN <<holiday.v>> ELSE <<>>)
                    \o (IF Truthy(holiday) /\ Truthy(weekday) THEN <<", ">> ELSE <<>>)
                    \o (IF Truthy(weekday) THEN <<"weekday ", weekday.v>> ELSE <<>>)
        tt == time_txt(Get(t.dt_local))
    IN (IF tt # None THEN <<<<"Local time: ">> \o tt.v>> ELSE <<>>)
       \o (IF cal_bits # <<>> THEN <<cal_bits>> ELSE <<>>)
       \o <<sun_txt(sun)>>

\* sorted(keys, key=counts.get, reverse=True): a stable sort, so keys of equal
\* count keep their order in the dict
\* an insertion that puts a key before the keys of equal count
RECURSIVE InsertDescUnstable(_, _, _)
InsertDescUnstable(sorted, k, counts) ==
    IF sorted = <<>> THEN <<k>>
    ELSE IF counts[Head(sorted)] > counts[k]
        THEN <<Head(sorted)>> \o InsertDescUnstable(Tail(sorted), k, counts)
    ELSE <<k>> \o sorted

RECURSIVE InsertDesc(_, _, _)
InsertDesc(sorted, k, counts) ==
    IF sorted = <<>> THEN <<k>>
    ELSE IF counts[Head(sorted)] >= counts[k]
        THEN <<Head(sorted)>> \o InsertDesc(Tail(sorted), k, counts)
    ELSE <<k>> \o sorted

RECURSIVE SortedDesc(_, _)
SortedDesc(keys, counts) ==
    IF keys = <<>> THEN <<>>
    ELSE InsertDesc(SortedDesc(SubSeq(keys, 1, Len(keys) - 1), counts),
                    keys[Len(keys)], counts)

landuse_top(landuse_counts) ==
    IF landuse_counts = None THEN <<>>
    ELSE SubSeq(SortedDesc(CatNames, landuse_counts.v), 1, 3)

condition_of(wx) == Or(Get(wx.condition), Get(wx.label))

temp_c_of(wx) == GetDefault(wx.temperature_c, Get(wx.temp_c))

wx_bits(wx, full) ==
    (IF Truthy(condition_of(wx)) THEN <<<<condition_of(wx).v>>>> ELSE <<>>)
    \o (IF full /\ temp_c_of(wx) # None
           THEN <<<<Fmt0(temp_c_of(wx).v), "degC">>>> ELSE <<>>)
    \o (IF full /\ Get(wx.wind_mps) # None
           THEN <<<<"wind ", Fmt0(Get(wx.wind_mps).v), " m/s">>>> ELSE <<>>)
    \o (IF full /\ Get(wx.precip_mm) # None
           THEN <<<<"precip ">> \o Fmt1(Get(wx.precip_mm).v) \o <<" mm">>>> ELSE <<>>)
    \o (IF full /\ Get(wx.visibility_km) # None
           THEN <<<<"visibility ", Fmt0(Get(wx.visibility_km).v), " km">>>> ELSE <<>>)

climate_bits(clim) ==
    (IF Truthy(Get(clim.koppen)) THEN <<<<clim.koppen.v>>>> ELSE <<>>)
    \o (IF clim.leaf_on # Missing
           THEN <<<<IF TruthyFlag(clim.leaf_on) THEN "leaf-on" ELSE "leaf-off">>>>
           ELSE <<>>)

camera_bits(cam) ==
    (IF Get(cam.heading_deg) # None
        THEN <<<<"heading ", Fmt0(cam.heading_deg.v), "deg">>>> ELSE <<>>)
    \o (IF Get(cam.hfov_deg) # None
           THEN <<<<"hfov ", Fmt0(cam.hfov_deg.v), "deg">>>> ELSE <<>>)

Style == "Photorealistic street-level photo, 35mm lens, natural colors."

\* a line of the text: a label and the bits joined after it; a line without
\* bits is the empty string and is dropped by the final join
Line(label, bits) == IF bits = <<>> THEN <<>> ELSE <<[label |-> label, bits |-> bits]>>

render(n, full) ==
    LET lead == Line("", lead_bits(n.geo, n.location))
        time_line == Line("", time_line_bits(n.time, n.sun))
        layout_line == Line("Layout: ",
                            [i \in 1..Len(landuse_top(Get(n.geo.landuse_counts)))
                               |-> <<landuse_top(Get(n.geo.landuse_counts))[i]>>])
        weather_line == Line("Weather: ", wx_bits(n.weather, full))
        climate_line == Line("Climate: ", climate_bits(n.climate))
        camera_line == Line("Camera: ", camera_bits(n.camera))
        style == Line("", <<<<Style>>>>)
    IN [t |-> "text",
        phase |-> phase_of(n.sun),
        lines |-> IF ~full
                     THEN lead \o time_line
                          \o (IF Truthy(condition_of(n.weather))
                                 THEN Line("Weather: ", <<<<condition_of(n.weather).v>>>>)
                                 ELSE <<>>)
                          \o style
                     ELSE lead \o time_line \o layout_line \o weather_line
                          \o climate_line \o camera_line \o style]

\* the body reads the module global `norm`, never its parameter `card`
scene_card_to_template_prompt(global_norm, card, full) ==
    IF global_norm = Unbound THEN Raise("NameError")
    ELSE render(global_norm, full)

-----------------------------------------------------------------------------
(* scene_card_to_template_prompt of generate_prompt.py *)

TemplateStyle == "photorealistic street-level photo, 35mm lens, natural colors"

\* card is a scene; extra holds the keys "prompt" and "map_context" that the
\* caller may have added to it
template_prompt(card, extra) ==
    IF extra.map_context = Missing \/ extra.map_context.v.elements = Missing
        THEN Raise("KeyError")
    ELSE IF card.weather.condition = Missing THEN Raise("KeyError")
    ELSE IF extra.prompt = Missing THEN Raise("KeyError")
    ELSE LET e == extra.map_context.v.elements.v
             w == card.weather.condition
         IN [t |-> "text",
             phase |-> IF TruthyFlag(card.sun.is_night) THEN "night" ELSE "day",
             lines |-> <<[label |-> "",
                          bits |->
                 (IF Truthy(extra.prompt) THEN <<<<extra.prompt.v>>>> ELSE <<>>)
                 \o <<<<"weather: ", Str(w)>>,
                      <<"time: ", IF TruthyFlag(card.sun.is_night) THEN "night" ELSE "day">>,
                      <<"dominant road: ", Str(GetDefault(e.road_type, Val("residential")))>>,
                      <<IF TruthyFlag(Get(e.sidewalk)) THEN "sidewalk present"
                                                     ELSE "no visible sidewalk">>,
                      <<"buildings: ", Str(GetDefault(e.building_height_hint, Val("unknown"))),
                        " density ", Str(GetDefault(e.building_density, Val("medium")))>>,
                      <<TemplateStyle>>>>]>>]

-----------------------------------------------------------------------------
(* Inputs *)

\* the weather of the demo (legacy keys) and the same values under the
\* canonical keys
LegacyWeather ==
    [condition |-> Missing, label |-> Val("overcast"),
     temperature_c |-> Missing, temp_c |-> Val(74),
     wind_mps |-> Val(31), precip_mm |-> Val(0), visibility_km |-> Val(80)]

CanonicalWeather ==
    [condition |-> Val("overcast"), label |-> Missing,
     temperature_c |-> Val(74), temp_c |-> Missing,
     wind_mps |-> Val(31), precip_mm |-> Val(0), visibility_km |-> Val(80)]

NoWeather ==
    [condition |-> Missing, label |-> Missing,
     temperature_c |-> Missing, temp_c |-> Missing,
     wind_mps |-> Missing, precip_mm |-> Missing, visibility_km |-> Missing]

NullWeather ==
    [condition |-> None, label |-> Missing,
     temperature_c |-> None, temp_c |-> Missing,
     wind_mps |-> None, precip_mm |-> None, visibility_km |-> None]

WeatherSet == {LegacyWeather, CanonicalWeather, NoWeather, NullWeather}

Poi(name, brand, operator) == [name |-> name, brand |-> brand, operator |-> operator]

PoiSet == {Poi(n, b, o) : n \in {None, Val(""), Val("Cafe Rio"), Val("Parking P1")},
                          b \in {None, Val(""), Val("Acme")},
                          o \in {None, Val("Metro")}}

Feature(landuse, natural, highway, building) ==
    [landuse |-> landuse, natural |-> natural, highway |-> highway, building |-> building]

LanduseValues == {"residential", "retail", "grass", "wood", "orchard", "park",
                  "water", "building", "cemetery"}
NaturalValues == {"water", "wetland", "wood", "tree"}
HighwayValues == {"primary", "service", "footway"}

\* a feature carries at most one of landuse / natural / highway, and may or
\* may not be a building
FeatureSet ==
    {Feature(l, n, h, b) :
        l \in {None} \cup {Val(v) : v \in LanduseValues},
        n \in {None} \cup {Val(v) : v \in NaturalValues},
        h \in {None} \cup {Val(v) : v \in HighwayValues},
        b \in {None, Val("yes")}}

SingleTagFeatures ==
    {f \in FeatureSet :
        Cardinality({k \in {"landuse", "natural", "highway"} : f[k] # None}) <= 1}

Address(cc, city, town) ==
    [country_code |-> cc, state |-> Val("Ile-de-France"), city |-> city, town |-> town,
     village |-> Missing, municipality |-> Missing,
     neighbourhood |-> Missing, suburb |-> Val("Gros-Caillou"), quarter |-> Missing]

NoAddress ==
    [country_code |-> Missing, state |-> Missing, city |-> Missing, town |-> Missing,
     village |-> Missing, municipality |-> Missing,
     neighbourhood |-> Missing, suburb |-> Missing, quarter |-> Missing]

BaseOsm ==
    [ok |-> TRUE,
     gdf_poi |-> <<Poi(Val("Cafe Rio"), None, None)>>,
     gdf_land |-> <<Feature(Val("retail"), None, None, Val("yes")),
                    Feature(None, None, Val("primary"), None)>>]

BaseEnv ==
    [osm |-> BaseOsm,
     tz |-> [ok |-> TRUE, tzname |-> Val("Europe/Paris")],
     holiday |-> [ok |-> TRUE, name |-> [c \in {"FR", "US"} |-> None]],
     geocode |-> [ok |-> TRUE, address |-> Address(Val("fr"), Val("Paris"), Missing),
                  display_name |-> Val("Paris, France")],
     sun |-> [az |-> 2400, el |-> -90]]

\* the demo call: Eiffel Tower, 24 December 2025 17:00 UTC
BaseArgs ==
    [lat |-> 489, lon |-> 23, dt_utc |-> [doy |-> 358, hour |-> 17],
     weather |-> LegacyWeather, climate |-> None, heading_deg |-> None]

Elements(road_type, sidewalk) ==
    [road_type |-> road_type, sidewalk |-> sidewalk,
     building_height_hint |-> Missing, building_density |-> Val("high")]

ExtraSet ==
    {[prompt |-> Missing, map_context |-> Missing],
     [prompt |-> Val("A street in Paris."),
      map_context |-> Val([elements |-> Val(Elements(Val("primary"), Val(TRUE)))])],
     [prompt |-> Val(""),
      map_context |-> Val([elements |-> Val(Elements(Missing, Missing))])]}

-----------------------------------------------------------------------------
(* Actions *)

\* norm = scene_card(...): as a script the result is bound to the global norm
SceneCard ==
    /\ pc = "start"
    /\ ret' = scene_card(args, env)
    /\ pc' = IF IsRaise(ret') THEN "raised" ELSE "normalized"
    /\ norm' = IF entry = "script" /\ ~IsRaise(ret') THEN ret' ELSE norm
    /\ UNCHANGED <<entry, args, env, call, out>>

\* scene_card_to_template_prompt(card, full=...) on the scene just built
Render ==
    /\ pc = "normalized"
    /\ \E full \in BOOLEAN :
          /\ out' = scene_card_to_template_prompt(norm, ret, full)
          /\ call' = [full |-> full]
          /\ pc' = "rendered"
    /\ UNCHANGED <<entry, args, env, ret, norm>>

\* the template prompt of generate_prompt.py on the scene just built
TemplatePrompt ==
    /\ pc = "normalized"
    /\ \E extra \in ExtraSet :
          /\ out' = template_prompt(ret, extra)
          /\ call' = [extra |-> extra]
    /\ pc' = "templated"
    /\ UNCHANGED <<entry, args, env, ret, norm>>

\* _sun_buckets on the sun of the scene just built
SunBuckets ==
    /\ pc = "normalized"
    /\ out' = [t |-> "buckets",
               dir |-> sun_buckets(ret.sun.azimuth_deg, ret.sun.elevation_deg)[1],
               elev |-> sun_buckets(ret.sun.azimuth_deg, ret.sun.elevation_deg)[2]]
    /\ pc' = "bucketed"
    /\ UNCHANGED <<entry, args, env, ret, norm, call>>

Next == SceneCard \/ Render \/ TemplatePrompt \/ SunBuckets

InitCommon ==
    /\ pc = "start"
    /\ entry \in {"script", "import"}
    /\ ret = Unbound
    /\ norm = Unbound
    /\ call = Unbound
    /\ out = Unbound

\* every collaborator may answer, answer nothing, or fail
Init ==
    /\ InitCommon
    /\ args \in {[BaseArgs EXCEPT !.weather = w, !.heading_deg = h, !.climate = c] :
                    w \in WeatherSet, h \in {None, Val(900)},
                    c \in {None, Val([koppen |-> Val("Dfb"), leaf_on |-> Missing])}}
    /\ env \in {[BaseEnv EXCEPT !.osm = o, !.tz = z, !.holiday = h, !.geocode = g] :
                    o \in {[BaseOsm EXCEPT !.ok = FALSE], BaseOsm,
                           [BaseOsm EXCEPT !.gdf_poi = <<>>, !.gdf_land = <<>>]},
                    z \in {[ok |-> FALSE, tzname |-> None], [ok |-> TRUE, tzname |-> None],
                           [ok |-> TRUE, tzname |-> Val("Europe/Paris")],
                           [ok |-> TRUE, tzname |-> Val("America/New_York")]},
                    h \in {[ok |-> FALSE, name |-> [c \in {"FR", "US"} |-> None]],
                           [ok |-> TRUE, name |-> [c \in {"FR", "US"} |-> None]],
                           [ok |-> TRUE, name |-> [c \in {"FR", "US"} |-> Val("Christmas Eve")]]},
                    g \in {[ok |-> FALSE, address |-> NoAddress, display_name |-> Val("")],
                           [ok |-> TRUE, address |-> NoAddress, display_name |-> Val("")],
                           [ok |-> TRUE, address |-> Address(Val("fr"), Missing, Val("Paris")),
                            display_name |-> Val("Paris, France")]}}

Spec == Init /\ [][Next]_vars

-----------------------------------------------------------------------------
(* The sun: every elevation and every azimuth, one at a time *)

ElevationSet == -900..900
AzimuthSet == 0..3599

InitSun ==
    /\ InitCommon
    /\ args = BaseArgs
    /\ env \in {[BaseEnv EXCEPT !.sun.el = e] : e \in ElevationSet}
               \cup {[BaseEnv EXCEPT !.sun.az = a, !.sun.el = 200] : a \in AzimuthSet}

SpecSun == InitSun /\ [][Next]_vars

Rendered == pc = "rendered" /\ out.t = "text"

\* the last bit of the time line is the sun text: phase, then the buckets
SunBit == out.lines[2].bits[Len(out.lines[2].bits)]

\* C1: whenever the renderer returns a text for a scene whose flags come
\* from sun_position_flags, the phase is golden for 0 < e <= 10, else blue for
\* -6 <= e <= 0, else day for e > 0, else night; e = 0 and e = -6 give blue,
\* e = 10 gives golden
PhasePrecedence ==
    Rendered =>
        LET e == env.sun.el
        IN /\ out.phase \in {"golden", "blue", "day", "night"}
           /\ SunBit[1] = out.phase
           /\ (0 < e /\ e <= 100) => out.phase = "golden"
           /\ (-60 <= e /\ e <= 0) => out.phase = "blue"
           /\ e > 100 => out.phase = "day"
           /\ e < -60 => out.phase = "night"

PhaseBoundaryWitness ==
    Rendered /\ env.sun.el = 0 /\ out.phase = "blue" /\ norm.sun.is_blue_hour = Val(TRUE)

\* C5 as claimed: azimuth 0 -> N, 44 -> N, 46 -> NE in the helper and inline
AzimuthBucketsClaimed ==
    /\ pc = "bucketed" =>
          /\ env.sun.az = 0 => out.dir = "N"
          /\ env.sun.az = 440 => out.dir = "N"
          /\ env.sun.az = 460 => out.dir = "NE"
    /\ Rendered =>
          /\ env.sun.az = 0 => SunBit[3] = "N"
          /\ env.sun.az = 440 => SunBit[3] = "N"
          /\ env.sun.az = 460 => SunBit[3] = "NE"

\* C5 amended: azimuth 0 -> N, 44 -> NE, 46 -> NE in the helper and inline
AzimuthBuckets ==
    /\ pc = "bucketed" =>
          /\ env.sun.az = 0 => out.dir = "N"
          /\ env.sun.az = 440 => out.dir = "NE"
          /\ env.sun.az = 460 => out.dir = "NE"
    /\ Rendered =>
          /\ env.sun.az = 0 => SunBit[3] = "N"
          /\ env.sun.az = 440 => SunBit[3] = "NE"
          /\ env.sun.az = 460 => SunBit[3] = "NE"

Azimuth44Witness == pc = "bucketed" /\ env.sun.az = 440 /\ out.dir = "NE"

-----------------------------------------------------------------------------
(* The climate heuristic: latitudes around every band edge, every day *)

\* the latitudes next to every band edge, the demo latitude and the pole
BandEdges == {0, 1, 99, 100, 101, 229, 230, 231, 349, 350, 351, 489, 549, 550, 551, 900}
LatSet == BandEdges \cup {-x : x \in BandEdges}
DoySet == 1..366

InitClimate ==
    /\ InitCommon
    /\ args \in {[BaseArgs EXCEPT !.lat = l, !.dt_utc.doy = d] : l \in LatSet, d \in DoySet}
    /\ env = BaseEnv

SpecClimate == InitClimate /\ [][Next]_vars

Normalized == pc = "normalized" /\ ret.t = "scene"

\* C6: the climate code is the band of |lat| and leaf_on depends only on the
\* code and the day of the year
KoppenLeafState ==
    Normalized =>
        LET a == Abs(args.lat)
            doy == args.dt_utc.doy
            code == ret.climate.koppen.v
            leaf == ret.climate.leaf_on.v
        IN /\ a < 100 => code = "Af"
           /\ (100 <= a /\ a < 230) => code = "Aw"
           /\ (230 <= a /\ a < 350) => code = "BSh"
           /\ (350 <= a /\ a < 550) => code = "Cfb"
           /\ a >= 550 => code = "Dfb"
           /\ code \in {"Cfb", "Dfb"} => (leaf <=> (120 <= doy /\ doy <= 300))
           /\ code \in {"Af", "Aw"} => leaf
           /\ code = "BSh" => (leaf <=> (150 <= doy /\ doy <= 280))
           /\ (code = "Cfb" /\ doy \in {119, 301}) => ~leaf
           /\ (code = "Cfb" /\ doy \in {120, 300}) => leaf

LeafBoundaryWitness ==
    /\ Normalized
    /\ args.lat = 489 /\ args.dt_utc.doy = 120
    /\ ret.climate = [koppen |-> Val("Cfb"), leaf_on |-> Val(TRUE)]

-----------------------------------------------------------------------------
(* The place type: tallies on both sides of every threshold *)

TallySet ==
    {[c \in Cats |->
        CASE c = "residential" -> re [] c = "retail" -> rt [] c = "industrial" -> ind
          [] c = "commercial" -> co [] c = "park" -> pa [] c = "forest" -> fo
          [] c = "water" -> 0 [] c = "farmland" -> fa [] c = "road_major" -> ma
          [] c = "road_minor" -> mi [] c = "building" -> bu] :
        re \in {0, 15, 21}, rt \in {0, 5, 6}, ind \in {2, 3}, co \in {0, 1},
        pa \in {0, 6}, fo \in {0, 5}, fa \in {3, 4}, ma \in {0, 1}, mi \in {3, 4},
        bu \in {0, 4, 5, 9, 10}}

InitPlace ==
    /\ InitCommon
    /\ args \in {[c |-> c] : c \in TallySet}
    /\ env = BaseEnv

\* place_type = derive_place_type(cats)
DerivePlaceType ==
    /\ pc = "start"
    /\ ret' = Val(derive_place_type(args.c))
    /\ pc' = "classified"
    /\ UNCHANGED <<entry, args, env, norm, call, out>>

SpecPlace == InitPlace /\ [][DerivePlaceType]_vars

Rule1(c) == c["retail"] + c["commercial"] > 5 /\ c["road_major"] >= 1
Rule2(c) == c["residential"] + c["building"] > 20 /\ c["road_minor"] > 3
Rule3(c) == c["park"] + c["forest"] > 5 /\ c["building"] < 10
Rule4(c) == c["farmland"] > 3 /\ c["building"] < 5
Rule5(c) == c["industrial"] > 2

\* C2: the place type is the label of the first rule that matches, in the
\* order 1..5, mixed_urban when none does; rule 1 wins over rule 2
PlaceTypeFirstMatch ==
    pc = "classified" =>
        LET c == args.c
        IN /\ ret.v \in {"urban_commercial", "urban_residential", "parkland",
                         "rural_farmland", "industrial", "mixed_urban"}
           /\ Rule1(c) => ret.v = "urban_commercial"
           /\ (~Rule1(c) /\ Rule2(c)) => ret.v = "urban_residential"
           /\ (~Rule1(c) /\ ~Rule2(c) /\ Rule3(c)) => ret.v = "parkland"
           /\ (~Rule1(c) /\ ~Rule2(c) /\ ~Rule3(c) /\ Rule4(c)) => ret.v = "rural_farmland"
           /\ (~Rule1(c) /\ ~Rule2(c) /\ ~Rule3(c) /\ ~Rule4(c) /\ Rule5(c))
                 => ret.v = "industrial"
           /\ (~Rule1(c) /\ ~Rule2(c) /\ ~Rule3(c) /\ ~Rule4(c) /\ ~Rule5(c))
                 => ret.v = "mixed_urban"

BothRulesWitness ==
    pc = "classified" /\ Rule1(args.c) /\ Rule2(args.c) /\ ret.v = "urban_commercial"

-----------------------------------------------------------------------------
(* The feature query: every small collection of features and of POIs *)

OsmFeatureSet ==
    SingleTagFeatures
    \cup {Feature(Val("wood"), Val("wood"), Val("primary"), Val("yes"))}

InitOsm ==
    /\ InitCommon
    /\ args = BaseArgs
    /\ env \in {[BaseEnv EXCEPT !.osm.gdf_land = g] : g \in SeqsUpTo(OsmFeatureSet, MaxFeatures)}
               \cup {[BaseEnv EXCEPT !.osm.gdf_poi = g] : g \in SeqsUpTo(PoiSet, MaxPois)}

SpecOsm == InitOsm /\ [][Next]_vars

\* the number of features whose tag `col` is present with a value in S
TagCount(gdf, col, S) ==
    Cardinality({i \in 1..Len(gdf) : gdf[i][col] # None /\ gdf[i][col].v \in S})

\* the number of present landuse / natural / highway / building tags
TagsPresent(gdf) ==
    Cardinality({<<i, col>> \in (1..Len(gdf)) \X {"landuse", "natural", "highway", "building"} :
                    gdf[i][col] # None})

BuildingCount(gdf) ==
    Cardinality({i \in 1..Len(gdf) : gdf[i]["building"] # None})

\* the landuse values that the claim files under category c
ClaimedLanduse(c) ==
    CASE c \in {"residential", "retail", "industrial", "commercial"} -> {c}
      [] c = "park" -> {"grass", "meadow", "recreation_ground"}
      [] c = "forest" -> {"forest", "wood"}
      [] c = "farmland" -> {"farmland", "farm", "orchard", "vineyard"}
      [] OTHER -> {}

ClaimedNatural(c) == IF c = "water" THEN {"water", "wetland"} ELSE {}

HighwayOf(c) ==
    CASE c = "road_major" -> {"motorway", "trunk", "primary"}
      [] c = "road_minor" -> {"secondary", "tertiary", "residential", "service", "unclassified"}
      [] OTHER -> {}

\* C9 as claimed: every count is the number of tags filed under it by the
\* claim's tables, where only four landuse values count under their own name
\* and natural feeds water only
TallyClaimed ==
    Normalized =>
        LET g == env.osm.gdf_land
            counts == ret.geo.landuse_counts.v
        IN /\ DOMAIN counts = Cats
           /\ \A c \in Cats :
                 counts[c] = TagCount(g, "landuse", ClaimedLanduse(c))
                           + TagCount(g, "natural", ClaimedNatural(c))
                           + TagCount(g, "highway", HighwayOf(c))
                           + (IF c = "building" THEN BuildingCount(g) ELSE 0)

\* the landuse values that the code files under category c: the name of the
\* category itself, and the aliases
AmendedLanduse(c) ==
    {c} \cup (CASE c = "park" -> {"grass", "meadow", "recreation_ground"}
                [] c = "forest" -> {"wood"}
                [] c = "farmland" -> {"farm", "orchard", "vineyard"}
                [] OTHER -> {})

AmendedNatural(c) ==
    CASE c = "water" -> {"water", "wetland"}
      [] c = "forest" -> {"wood", "forest"}
      [] OTHER -> {}

\* C9 amended: all 11 keys, non-negative counts; a landuse value that is the
\* name of any of the 11 categories counts under that name, the landuse
\* aliases as claimed, natural water/wetland under water and natural
\* wood/forest under forest, highway and building as claimed; a tag is filed
\* under at most one category and any other value changes no count
TallyAmended ==
    Normalized =>
        LET g == env.osm.gdf_land
            counts == ret.geo.landuse_counts.v
        IN /\ DOMAIN counts = Cats
           /\ \A c \in Cats : counts[c] >= 0
           /\ \A c \in Cats :
                 counts[c] = TagCount(g, "landuse", AmendedLanduse(c))
                           + TagCount(g, "natural", AmendedNatural(c))
                           + TagCount(g, "highway", HighwayOf(c))
                           + (IF c = "building" THEN BuildingCount(g) ELSE 0)
           /\ SumOver(counts, Cats) <= TagsPresent(g)

NaturalWoodWitness ==
    /\ Normalized
    /\ env.osm.gdf_land = <<Feature(None, Val("wood"), None, Val("yes")),
                            Feature(Val("park"), None, None, None)>>
    /\ ret.geo.landuse_counts.v["forest"] = 1
    /\ ret.geo.landuse_counts.v["park"] = 1
    /\ ret.geo.landuse_counts.v["building"] = 1

NonEmpty(x) == x # None /\ x # Val("")

FirstNonEmpty(gdf, col) ==
    gdf[CHOOSE i \in 1..Len(gdf) :
            /\ NonEmpty(gdf[i][col])
            /\ \A j \in 1..(i - 1) : ~NonEmpty(gdf[j][col])][col]

HasNonEmpty(gdf, col) == \E i \in 1..Len(gdf) : NonEmpty(gdf[i][col])

\* C10: the nearest POI is the first non-empty name of the features in
\* their order, else the first non-empty brand, else the first non-empty
\* operator, else no POI; an empty string is never selected
NearestPoiFirstNonEmpty ==
    Normalized =>
        LET g == env.osm.gdf_poi
            poi == ret.geo.nearest_poi
        IN /\ poi # Val("")
           /\ HasNonEmpty(g, "name") => poi = FirstNonEmpty(g, "name")
           /\ (~HasNonEmpty(g, "name") /\ HasNonEmpty(g, "brand"))
                 => poi = FirstNonEmpty(g, "brand")
           /\ (~HasNonEmpty(g, "name") /\ ~HasNonEmpty(g, "brand")
                  /\ HasNonEmpty(g, "operator"))
                 => poi = FirstNonEmpty(g, "operator")
           /\ (~HasNonEmpty(g, "name") /\ ~HasNonEmpty(g, "brand")
                  /\ ~HasNonEmpty(g, "operator"))
                 => poi = None

-----------------------------------------------------------------------------
(* Failing collaborators and the three rendering forms *)

LookupFailed == ~env.osm.ok \/ ~env.tz.ok \/ ~env.holiday.ok \/ ~env.geocode.ok

\* C3: when a lookup fails, scene_card still returns a scene, and the fields
\* of the failed lookup hold their defaults: zero counts and no POI, UTC,
\* empty location strings, no holiday
LookupFailuresDegrade ==
    (pc # "start" /\ LookupFailed) =>
        /\ ret.t = "scene"
        /\ ~env.osm.ok => /\ \A c \in Cats : ret.geo.landuse_counts.v[c] = 0
                          /\ ret.geo.nearest_poi = None
        /\ ~env.tz.ok => /\ ret.time.dt_local.v.sign = "+"
                         /\ ret.time.dt_local.v.off = <<"0", "0", ":00">>
        /\ ~env.geocode.ok => ret.location = EmptyLocation
        /\ ~env.holiday.ok => /\ ret.time.is_holiday = Val(FALSE)
                              /\ ret.time.holiday_name = None

\* C4: every rendering form returns a text, and no line, fragment or token
\* of it is empty or the null placeholder
RenderingOmitsAbsent ==
    pc \in {"rendered", "templated"} =>
        /\ out.t = "text"
        /\ \A i \in 1..Len(out.lines) :
              /\ out.lines[i].bits # <<>>
              /\ \A j \in 1..Len(out.lines[i].bits) :
                    /\ out.lines[i].bits[j] # <<>>
                    /\ \A k \in 1..Len(out.lines[i].bits[j]) :
                          out.lines[i].bits[j][k] \notin {"", "None"}

\* C7: a scene whose weather uses the legacy keys renders, in every form,
\* without raising and to the text of the same scene under the canonical keys
WeatherKeyVariantsAgree ==
    (pc \in {"rendered", "templated"} /\ args.weather = LegacyWeather) =>
        /\ out.t = "text"
        /\ pc = "rendered" =>
              out = scene_card_to_template_prompt(
                        IF norm = Unbound THEN Unbound
                        ELSE [norm EXCEPT !.weather = CanonicalWeather],
                        [ret EXCEPT !.weather = CanonicalWeather], call.full)
        /\ pc = "templated" =>
              out = template_prompt([ret EXCEPT !.weather = CanonicalWeather], call.extra)

-----------------------------------------------------------------------------
(* The layout line: every tally of at most MaxTags tagged features *)

\* a feature that the tally files under category c
FeatureOf(c) ==
    CASE c = "road_major" -> Feature(None, None, Val("primary"), None)
      [] c = "road_minor" -> Feature(None, None, Val("service"), None)
      [] c = "building" -> Feature(None, None, None, Val("yes"))
      [] OTHER -> Feature(Val(c), None, None, None)

CatIndex(c) == CHOOSE i \in 1..Len(CatNames) : CatNames[i] = c

\* the tallies do not depend on the order of the features: one collection per
\* tally, its features in the order of the enumeration of their categories
Ordered(s) == \A i \in 1..(Len(s) - 1) : CatIndex(s[i]) <= CatIndex(s[i + 1])

\* the collections of at most n features, as the categories they fall in
RECURSIVE CategorySeqs(_)
CategorySeqs(n) ==
    IF n = 0 THEN {<<>>}
    ELSE LET shorter == CategorySeqs(n - 1)
         IN shorter
            \cup {x \in {<<CatNames[i]>> \o q :
                            q \in {r \in shorter : Len(r) = n - 1},
                            i \in 1..Len(CatNames)} : Ordered(x)}

InitLayout ==
    /\ InitCommon
    /\ args = BaseArgs
    /\ env \in {[BaseEnv EXCEPT !.osm.gdf_land = [i \in 1..Len(s) |-> FeatureOf(s[i])]] :
                   s \in CategorySeqs(MaxTags)}

SpecLayout == InitLayout /\ [][Next]_vars

RenderedFull == Rendered /\ call.full

\* the line of the text that starts with the label "Layout: "
LayoutLine == out.lines[CHOOSE i \in 1..Len(out.lines) : out.lines[i].label = "Layout: "]

\* C11: the layout line of the full description lists three categories, by
\* count descending; categories of equal count stand in the order of the
\* enumeration, among the listed ones and against the ones left out
LayoutTopThree ==
    RenderedFull =>
        LET c == norm.geo.landuse_counts.v
            top == [i \in 1..Len(LayoutLine.bits) |-> LayoutLine.bits[i][1]]
            Before(a, b) == c[a] > c[b] \/ (c[a] = c[b] /\ CatIndex(a) < CatIndex(b))
        IN /\ \E i \in 1..Len(out.lines) : out.lines[i].label = "Layout: "
           /\ Len(top) = 3
           /\ \A i \in 1..3 : top[i] \in Cats /\ Len(LayoutLine.bits[i]) = 1
           /\ Before(top[1], top[2])
           /\ Before(top[2], top[3])
           /\ \A d \in Cats \ {top[1], top[2], top[3]} : Before(top[3], d)

ThirdPlaceTieWitness ==
    /\ RenderedFull
    /\ norm.geo.landuse_counts.v["retail"] = 1
    /\ norm.geo.landuse_counts.v["park"] = 1
    /\ norm.geo.landuse_counts.v["water"] = 1
    /\ norm.geo.landuse_counts.v["building"] = 1
    /\ LayoutLine.bits = <<<<"retail">>, <<"park">>, <<"water">>>>

=============================================================================
